---- MODULE Spec2Model ----
(***************************************************************************)
(* HabiTech (src/main.py): the Flask route /california-model and the      *)
(* pipeline fetch_california_data, which logs in to Earthdata, searches   *)
(* OMI NO2 granules, downloads them into tempo_data/, concatenates them,  *)
(* averages the tropospheric NO2 over the California box, classifies the  *)
(* mean against HIGH_RISK_THRESHOLD and shapes a report; any exception    *)
(* on that path is answered with a static mock report.                    *)
(*                                                                         *)
(* Units.  NO2 column amounts are integers in units of 1e-10 moles/cm^2,  *)
(* so 1.6e-9 is 16.  A mean is an exact rational num/den or NaN.          *)
(* Degrees are integers in hundredths of a degree.  Dates are yyyymmdd.   *)
(* A grid cell is <<>> (missing, NaN) or <<v>>.                           *)
(***************************************************************************)
EXTENDS Integers, Sequences, FiniteSets, TLC

\* ------------------------------------------------------------------------
\* Bounds of the model
\* ------------------------------------------------------------------------
\* Rows and columns of the (coarsened) global grid.
NLat == 3
NLon == 2

\* Worker threads of the Flask server, one request each.
Requests == {"r1", "r2"}

\* ------------------------------------------------------------------------
\* Program constants
\* ------------------------------------------------------------------------
HIGH_RISK_THRESHOLD == 16

lon_min == -12448
lat_min == 3253
lon_max == -11413
lat_max == 4201

START_DATE == 20250901
END_DATE == 20251001

\* The grid coordinates assigned after concatenation (np.linspace, ascending),
\* coarsened to NLat x NLon points around the box.
lat == [i \in 1..NLat |-> 2100 + 700 * i]
lon == [j \in 1..NLon |-> -13800 + 800 * j]

\* ------------------------------------------------------------------------
\* Environment: the archive, the files that can lie in tempo_data/
\* ------------------------------------------------------------------------
\* File names as token sequences; "*" never occurs in a name.
\*   G1, G2  granules of the archive inside the queried TimeRange
\*   S1      a granule of the archive of January 2025, outside the TimeRange
\*   D1      a local file with a dot after "L3", known to no query
Archive == {"G1", "G2", "S1"}

\* The files that can lie in tempo_data/.
Universe == {"G1", "G2", "D1"}

Name(f) ==
    CASE f = "G1" -> <<"OMI-Aura_L3", "-", "OMNO2d_2025m0901_v003", ".", "he5">>
      [] f = "G2" -> <<"OMI-Aura_L3", "-", "OMNO2d_2025m0902_v003", ".", "he5">>
      [] f = "S1" -> <<"OMI-Aura_L3", "-", "OMNO2d_2025m0101_v003", ".", "he5">>
      [] f = "D1" -> <<"OMI-Aura_L3", ".", "sample", ".", "he5">>

GranuleDate(f) ==
    CASE f = "G1" -> 20250901
      [] f = "G2" -> 20250902
      [] f = "S1" -> 20250101
      [] f = "D1" -> 0

InBox(i, j) ==
    /\ lat_min <= lat[i] /\ lat[i] <= lat_max
    /\ lon_min <= lon[j] /\ lon[j] <= lon_max

\* The NO2 field of a file.  Cells outside the box hold 90; inside the box
\* G1 holds 20 everywhere, G2 is all missing, D1 holds 8 or missing, so that
\* G1 alone is above the threshold, D1 alone below, both together exactly on
\* it, and G2 alone has no value at all.
NO2Cell(f, i, j) ==
    IF ~InBox(i, j) THEN <<90>>
    ELSE CASE f = "G1" -> <<20>>
           [] f = "G2" -> <<>>
           [] f = "S1" -> <<11>>
           [] f = "D1" -> IF i % 2 = 0 THEN <<8>> ELSE <<>>

\* The group "HDFEOS/GRIDS/ColumnAmountNO2/Data Fields" of a file: 2-D arrays
\* over (phony_dim_0, phony_dim_1).
FileGroup(f) ==
    [ColumnAmountNO2Trop |-> [i \in 1..NLat |-> [j \in 1..NLon |-> NO2Cell(f, i, j)]],
     Weight              |-> [i \in 1..NLat |-> [j \in 1..NLon |-> <<1>>]]]

Dates == {"2025-10-04", "2025-10-05"}

\* ------------------------------------------------------------------------
\* glob
\* ------------------------------------------------------------------------
RECURSIVE fnmatch(_, _)
fnmatch(name, pat) ==
    IF pat = <<>> THEN name = <<>>
    ELSE IF Head(pat) = "*"
         THEN \/ fnmatch(name, Tail(pat))
              \/ name # <<>> /\ fnmatch(Tail(name), pat)
         ELSE /\ name # <<>>
              /\ Head(name) = Head(pat)
              /\ fnmatch(Tail(name), Tail(pat))

\* "tempo_data/OMI-Aura_L3.*he5"
pattern_check == <<"OMI-Aura_L3", ".", "*", "he5">>
\* "tempo_data/OMI-Aura_L3*.he5"
pattern_load == <<"OMI-Aura_L3", "*", ".", "he5">>

Matching(dir, pat) == {f \in dir : fnmatch(Name(f), pat)}

\* All the orders in which a directory listing can come back.
Orderings(S) ==
    {s \in [1..Cardinality(S) -> S] : \A a, b \in 1..Cardinality(S) : a # b => s[a] # s[b]}

Range(s) == {s[k] : k \in DOMAIN s}

\* ------------------------------------------------------------------------
\* The processing steps of fetch_california_data, as operators
\* ------------------------------------------------------------------------
\* preprocess_omi_l3: drops Weight, puts every field under a time axis of
\* length 1 (the dimension rename changes no value).
preprocess_omi_l3(ds) ==
    [v \in (DOMAIN ds) \ {"Weight"} |-> <<ds[v]>>]

\* xr.open_mfdataset(files, preprocess=..., combine="nested", concat_dim="time"):
\* the preprocessed files, concatenated along time in the order of the list.
RECURSIVE concat_time(_)
concat_time(fs) ==
    IF fs = <<>> THEN <<>>
    ELSE preprocess_omi_l3(FileGroup(Head(fs))).ColumnAmountNO2Trop \o concat_time(Tail(fs))

open_mfdataset(fs) == [ColumnAmountNO2Trop |-> concat_time(fs)]

\* ds_combined.assign_coords(lat=lat, lon=lon)
assign_coords(ds) ==
    [ColumnAmountNO2Trop |-> ds.ColumnAmountNO2Trop, lat |-> lat, lon |-> lon]

\* Label-based slice on an ascending coordinate: both ends inclusive.
slice(coord, lo, hi) == {k \in DOMAIN coord : lo <= coord[k] /\ coord[k] <= hi}

SetMin(S) == CHOOSE x \in S : \A y \in S : x <= y
SetMax(S) == CHOOSE x \in S : \A y \in S : y <= x

\* The part of a sequence at the (contiguous) index set S, re-indexed from 1.
Take(s, S) == IF S = {} THEN <<>> ELSE SubSeq(s, SetMin(S), SetMax(S))

\* ds_combined.sel(lon=slice(lon_min, lon_max), lat=slice(lat_min, lat_max))
sel(ds) ==
    LET rows == slice(ds.lat, lat_min, lat_max)
        cols == slice(ds.lon, lon_min, lon_max)
    IN  [ColumnAmountNO2Trop |->
            [t \in DOMAIN ds.ColumnAmountNO2Trop |->
                LET grid == Take(ds.ColumnAmountNO2Trop[t], rows)
                IN  [i \in DOMAIN grid |-> Take(grid[i], cols)]],
         lat |-> Take(ds.lat, rows),
         lon |-> Take(ds.lon, cols)]

RECURSIVE Flatten(_)
Flatten(ss) == IF ss = <<>> THEN <<>> ELSE Head(ss) \o Flatten(Tail(ss))

RECURSIVE Sum(_)
Sum(s) == IF s = <<>> THEN 0 ELSE Head(s) + Sum(Tail(s))

NaN == [nan |-> TRUE, num |-> 0, den |-> 1]

\* The mean of the values of a sequence, NaN when there is none.
MeanOf(vals) ==
    IF vals = <<>> THEN NaN ELSE [nan |-> FALSE, num |-> Sum(vals), den |-> Len(vals)]

\* Mutant of mean: the time axis is forgotten, only the first slice is averaged.
mean_first_slice(arr) == MeanOf(Flatten(Flatten(Head(arr))))

\* ca_data['ColumnAmountNO2Trop'].mean(dim=['lat','lon','time']).compute().item():
\* missing cells are skipped; the mean of no value at all is NaN.
mean(arr) == MeanOf(Flatten(Flatten(Flatten(arr))))

RECURSIVE Pow10(_)
Pow10(k) == IF k <= 0 THEN 1 ELSE 10 * Pow10(k - 1)

\* The decimal exponent of p/q >= 1.
RECURSIVE Exp10(_, _)
Exp10(p, q) == IF p < 10 * q THEN 0 ELSE 1 + Exp10(p, 10 * q)

\* p/q rounded to the nearest integer, ties to even.
RoundHalfEven(p, q) ==
    LET f == p \div q
        r == p % q
    IN  IF 2 * r > q \/ (2 * r = q /\ f % 2 = 1) THEN f + 1 ELSE f

\* f"{x:.2e}" for x = m.num/m.den units of 1e-10: "nan", or a mantissa of three
\* digits (mant/100) and a decimal exponent.
format_2e(m) ==
    IF m.nan THEN [nan |-> TRUE, mant |-> 0, exp |-> 0]
    ELSE IF m.num = 0 THEN [nan |-> FALSE, mant |-> 0, exp |-> 0]
    ELSE LET e == Exp10(m.num, m.den)
             d == RoundHalfEven(m.num * Pow10(2 - e), m.den * Pow10(e - 2))
         IN  IF d = 1000 THEN [nan |-> FALSE, mant |-> 100, exp |-> e + 1 - 10]
             ELSE [nan |-> FALSE, mant |-> d, exp |-> e - 10]

\* Mutant of AtLeastThreshold: > for >=.
AtLeastThreshold_strict(m) == ~m.nan /\ m.num > HIGH_RISK_THRESHOLD * m.den

\* overall_mean_no2 >= HIGH_RISK_THRESHOLD (a comparison with NaN is false)
AtLeastThreshold(m) == ~m.nan /\ m.num >= HIGH_RISK_THRESHOLD * m.den

\* Mutant of risk_assessment: the else branch keeps the red of the if branch.
risk_assessment_red(m, formatted) ==
    [risk_level |-> IF AtLeastThreshold(m) THEN "HIGH RISK" ELSE "LOW/MODERATE RISK",
     risk_color_hex |-> "#DC2626",
     risk_interpretation |-> [text |-> "risk", concentration |-> formatted]]

\* 6. RISK ASSESSMENT
risk_assessment(m, formatted) ==
    IF AtLeastThreshold(m)
    THEN [risk_level |-> "HIGH RISK",
          risk_color_hex |-> "#DC2626",
          risk_interpretation |->
              [text |-> "HIGH RISK: exceeds the threshold",
               concentration |-> formatted,
               threshold |-> format_2e([nan |-> FALSE, num |-> HIGH_RISK_THRESHOLD, den |-> 1])]]
    ELSE [risk_level |-> "LOW/MODERATE RISK",
          risk_color_hex |-> "#059669",
          risk_interpretation |->
              [text |-> "LOW/MODERATE RISK: below the threshold",
               concentration |-> formatted]]

\* 7. RETURN REAL DATA STRUCTURE
real_data(formatted, risk, today) ==
    [region_name |-> "Greater California Area (Live Earthdata)",
     analysis_date |-> <<today, "(Live)">>,
     summary |-> [risk_level |-> risk.risk_level, no2 |-> formatted],
     metrics |-> <<
         [name |-> "Average Tropospheric NO2", value |-> formatted,
          unit |-> "moles/cm2", interpretation |-> risk.risk_interpretation],
         [name |-> "Data Source", value |-> "NASA OMI/Aura",
          unit |-> "Satellite", interpretation |-> "actual satellite data"]>>,
     recommendations |-> <<"dynamic traffic metering", "public transport", "industrial emission standards">>,
     is_live_data |-> TRUE,
     risk_color_hex |-> risk.risk_color_hex,
     risk_level |-> risk.risk_level]

\* Mock Data Fallback
mock_data ==
    [region_name |-> "Greater Los Angeles Area (Simulated)",
     analysis_date |-> "2024-10-01 (Simulated)",
     summary |-> "extreme Urban Heat Island effects",
     metrics |-> <<
         [name |-> "Average Tropospheric NO2", value |-> "5.50e+15",
          unit |-> "moles/cm2", interpretation |-> "Simulated high NO2"],
         [name |-> "Average Land Surface Temperature (LST)", value |-> "95.2F",
          unit |-> "Fahrenheit", interpretation |-> "High LST"],
         [name |-> "NDVI (Vegetation Index) Score", value |-> "0.15",
          unit |-> "Index (0-1)", interpretation |-> "Extremely low score"],
         [name |-> "Precipitation Anomaly", value |-> "-3.2 inches",
          unit |-> "Inches (vs historical avg)", interpretation |-> "drought conditions"]>>,
     recommendations |-> <<"reflective roofing", "Cool Pavement pilot", "urban agriculture">>]

\* The live path after the file list is known, end to end.
live_report(fs, today) ==
    LET m == mean(sel(assign_coords(open_mfdataset(fs))).ColumnAmountNO2Trop)
        formatted == format_2e(m)
    IN  real_data(formatted, risk_assessment(m, formatted), today)

\* ------------------------------------------------------------------------
\* State
\* ------------------------------------------------------------------------
VARIABLES
    cache,             \* the files lying in tempo_data/
    pc,                \* where each request is
    exc,               \* the step of the request that raised last, or "none"
    search_results,    \* locals of fetch_california_data, per request
    files,
    ds_combined,
    ca_data,
    overall_mean_no2,
    formatted_no2,
    risk,              \* risk_level, risk_color_hex, risk_interpretation
    retval,            \* real_data or mock_data, built and about to be returned
    data,              \* what fetch_california_data returned to california_model
    response,          \* the HTTP response of the request
    \* History of the call of fetch_california_data in progress:
    cachedAtStart,     \* tempo_data/ held files matching pattern_load when it started
    downloadCalled,    \* it called earthaccess.download
    fetched            \* that download wrote at least one file

locals == <<search_results, files, ds_combined, ca_data, overall_mean_no2, formatted_no2,
            risk, retval>>
history == <<cachedAtStart, downloadCalled, fetched>>
vars == <<cache, pc, exc, locals, data, response, history>>

None == [unset |-> TRUE]

\* The granules of the archive that match the query (short_name, temporal, bounding_box).
QueryMatches == {g \in Archive : START_DATE <= GranuleDate(g) /\ GranuleDate(g) <= END_DATE}

Init ==
    /\ cache \in SUBSET Universe
    /\ pc = [r \in Requests |-> "idle"]
    /\ exc = [r \in Requests |-> "none"]
    /\ search_results = [r \in Requests |-> {}]
    /\ files = [r \in Requests |-> <<>>]
    /\ ds_combined = [r \in Requests |-> None]
    /\ ca_data = [r \in Requests |-> None]
    /\ overall_mean_no2 = [r \in Requests |-> None]
    /\ formatted_no2 = [r \in Requests |-> None]
    /\ risk = [r \in Requests |-> None]
    /\ retval = [r \in Requests |-> None]
    /\ data = [r \in Requests |-> None]
    /\ response = [r \in Requests |-> None]
    /\ cachedAtStart = [r \in Requests |-> FALSE]
    /\ downloadCalled = [r \in Requests |-> FALSE]
    /\ fetched = [r \in Requests |-> FALSE]

Goto(r, label) == pc' = [pc EXCEPT ![r] = label]

\* The steps inside the try block of fetch_california_data.
PipelineSteps ==
    {"login", "search", "download", "no_files", "open", "coords", "sel", "mean",
     "format", "risk", "shape"}

\* Mutant of Raise: the login stands before the try block, its exception
\* reaches california_model.
Raise_login_outside_try(r, step) ==
    /\ pc' = [pc EXCEPT ![r] = IF step = "login" THEN "fatal" ELSE "except"]
    /\ exc' = [exc EXCEPT ![r] = step]

\* An exception raised inside the try block of fetch_california_data.
Raise(r, step) ==
    /\ pc' = [pc EXCEPT ![r] = "except"]
    /\ exc' = [exc EXCEPT ![r] = step]

\* ------------------------------------------------------------------------
\* GET /california-model: california_model calls fetch_california_data
\* ------------------------------------------------------------------------
\* The frame of fetch_california_data is left: its locals are gone, and the
\* history of the call with them.
DropLocals(r) ==
    /\ cachedAtStart' = [cachedAtStart EXCEPT ![r] = FALSE]
    /\ downloadCalled' = [downloadCalled EXCEPT ![r] = FALSE]
    /\ fetched' = [fetched EXCEPT ![r] = FALSE]
    /\ search_results' = [search_results EXCEPT ![r] = {}]
    /\ files' = [files EXCEPT ![r] = <<>>]
    /\ ds_combined' = [ds_combined EXCEPT ![r] = None]
    /\ ca_data' = [ca_data EXCEPT ![r] = None]
    /\ overall_mean_no2' = [overall_mean_no2 EXCEPT ![r] = None]
    /\ formatted_no2' = [formatted_no2 EXCEPT ![r] = None]
    /\ risk' = [risk EXCEPT ![r] = None]
    /\ retval' = [retval EXCEPT ![r] = None]

Request(r) ==
    /\ pc[r] = "idle"
    /\ Goto(r, "login")
    /\ cachedAtStart' = [cachedAtStart EXCEPT ![r] = Matching(cache, pattern_load) # {}]
    /\ UNCHANGED <<cache, exc, locals, data, response, downloadCalled, fetched>>

\* earthaccess.login(strategy="environment")
login(r) ==
    /\ pc[r] = "login"
    /\ \E ok \in BOOLEAN :
        IF ok THEN Goto(r, "search") /\ UNCHANGED exc
        ELSE Raise(r, "login")
    /\ UNCHANGED <<cache, locals, data, response, history>>

\* earthaccess.search_data(...): the matching granules, zero results, or an error.
search_data(r) ==
    /\ pc[r] = "search"
    /\ \/ \E res \in {QueryMatches, {}} :
            /\ search_results' = [search_results EXCEPT ![r] = res]
            /\ Goto(r, "glob_check")
            /\ UNCHANGED exc
       \/ Raise(r, "search") /\ UNCHANGED search_results
    /\ UNCHANGED <<cache, files, ds_combined, ca_data, overall_mean_no2, formatted_no2,
                   risk, retval, data, response, history>>

\* Mutant of NeedsDownload: a request does not download while another does.
NeedsDownload_exclusive(r, listing) ==
    listing = <<>> /\ \A o \in Requests \ {r} : pc[o] # "download"

\* if not files:
NeedsDownload(r, listing) == listing = <<>>

\* files = glob.glob("tempo_data/OMI-Aura_L3.*he5"); if not files: ...
glob_check(r) ==
    /\ pc[r] = "glob_check"
    /\ \E listing \in Orderings(Matching(cache, pattern_check)) :
        /\ files' = [files EXCEPT ![r] = listing]
        /\ IF NeedsDownload(r, listing) THEN Goto(r, "download") ELSE Goto(r, "glob_load")
    /\ UNCHANGED <<cache, exc, search_results, ds_combined, ca_data, overall_mean_no2,
                   formatted_no2, risk, retval, data, response, history>>

\* earthaccess.download(search_results, "tempo_data"): writes some of the
\* granules (a granule that fails is skipped), and returns or raises.
download(r) ==
    /\ pc[r] = "download"
    /\ \E written \in SUBSET search_results[r] :
        /\ cache' = cache \cup written
        /\ fetched' = [fetched EXCEPT ![r] = written # {}]
    /\ downloadCalled' = [downloadCalled EXCEPT ![r] = TRUE]
    /\ \E ok \in BOOLEAN :
        IF ok THEN Goto(r, "glob_load") /\ UNCHANGED exc
        ELSE Raise(r, "download")
    /\ UNCHANGED <<locals, data, response, cachedAtStart>>

\* files = glob.glob("tempo_data/OMI-Aura_L3*.he5")
glob_load(r) ==
    /\ pc[r] = "glob_load"
    /\ \E listing \in Orderings(Matching(cache, pattern_load)) :
        files' = [files EXCEPT ![r] = listing]
    /\ Goto(r, "no_files")
    /\ UNCHANGED <<cache, exc, search_results, ds_combined, ca_data, overall_mean_no2,
                   formatted_no2, risk, retval, data, response, history>>

\* if not files: raise FileNotFoundError(...)
no_files(r) ==
    /\ pc[r] = "no_files"
    /\ IF files[r] = <<>> THEN Raise(r, "no_files")
       ELSE Goto(r, "open") /\ UNCHANGED exc
    /\ UNCHANGED <<cache, locals, data, response, history>>

\* ds_combined = xr.open_mfdataset(files, ...)
open(r) ==
    /\ pc[r] = "open"
    /\ \/ /\ ds_combined' = [ds_combined EXCEPT ![r] = open_mfdataset(files[r])]
          /\ Goto(r, "coords")
          /\ UNCHANGED exc
       \/ Raise(r, "open") /\ UNCHANGED ds_combined
    /\ UNCHANGED <<cache, search_results, files, ca_data, overall_mean_no2, formatted_no2,
                   risk, retval, data, response, history>>

\* ds_combined = ds_combined.assign_coords(lat=lat, lon=lon)
coords(r) ==
    /\ pc[r] = "coords"
    /\ \/ /\ ds_combined' = [ds_combined EXCEPT ![r] = assign_coords(ds_combined[r])]
          /\ Goto(r, "sel")
          /\ UNCHANGED exc
       \/ Raise(r, "coords") /\ UNCHANGED ds_combined
    /\ UNCHANGED <<cache, search_results, files, ca_data, overall_mean_no2, formatted_no2,
                   risk, retval, data, response, history>>

\* ca_data = ds_combined.sel(...)
subset(r) ==
    /\ pc[r] = "sel"
    /\ \/ /\ ca_data' = [ca_data EXCEPT ![r] = sel(ds_combined[r])]
          /\ Goto(r, "mean")
          /\ UNCHANGED exc
       \/ Raise(r, "sel") /\ UNCHANGED ca_data
    /\ UNCHANGED <<cache, search_results, files, ds_combined, overall_mean_no2, formatted_no2,
                   risk, retval, data, response, history>>

\* overall_mean_no2 = ca_data['ColumnAmountNO2Trop'].mean(...).compute().item()
reduce(r) ==
    /\ pc[r] = "mean"
    /\ \/ /\ overall_mean_no2' =
                [overall_mean_no2 EXCEPT ![r] = mean(ca_data[r].ColumnAmountNO2Trop)]
          /\ Goto(r, "format")
          /\ UNCHANGED exc
       \/ Raise(r, "mean") /\ UNCHANGED overall_mean_no2
    /\ UNCHANGED <<cache, search_results, files, ds_combined, ca_data, formatted_no2,
                   risk, retval, data, response, history>>

\* formatted_no2 = f"{overall_mean_no2:.2e}"
format(r) ==
    /\ pc[r] = "format"
    /\ \/ /\ formatted_no2' = [formatted_no2 EXCEPT ![r] = format_2e(overall_mean_no2[r])]
          /\ Goto(r, "risk")
          /\ UNCHANGED exc
       \/ Raise(r, "format") /\ UNCHANGED formatted_no2
    /\ UNCHANGED <<cache, search_results, files, ds_combined, ca_data, overall_mean_no2,
                   risk, retval, data, response, history>>

\* if overall_mean_no2 >= HIGH_RISK_THRESHOLD: ... else: ...
classify(r) ==
    /\ pc[r] = "risk"
    /\ \/ /\ risk' = [risk EXCEPT ![r] = risk_assessment(overall_mean_no2[r], formatted_no2[r])]
          /\ Goto(r, "shape")
          /\ UNCHANGED exc
       \/ Raise(r, "risk") /\ UNCHANGED risk
    /\ UNCHANGED <<cache, search_results, files, ds_combined, ca_data, overall_mean_no2,
                   formatted_no2, retval, data, response, history>>

\* real_data = {...}
shape(r) ==
    /\ pc[r] = "shape"
    /\ \/ /\ \E today \in Dates :
                retval' = [retval EXCEPT ![r] = real_data(formatted_no2[r], risk[r], today)]
          /\ Goto(r, "return_real")
          /\ UNCHANGED exc
       \/ Raise(r, "shape") /\ UNCHANGED retval
    /\ UNCHANGED <<cache, search_results, files, ds_combined, ca_data, overall_mean_no2,
                   formatted_no2, risk, data, response, history>>

\* return real_data
return_real_data(r) ==
    /\ pc[r] = "return_real"
    /\ data' = [data EXCEPT ![r] = retval[r]]
    /\ DropLocals(r)
    /\ Goto(r, "render")
    /\ UNCHANGED <<cache, exc, response>>

\* Mutant of Catches: except FileNotFoundError.
Catches_FileNotFoundError(e) == e = "no_files"

\* except Exception as e:
Catches(e) == TRUE

\* except Exception as e: ...; mock_data = {...}.  An exception the clause does
\* not catch leaves fetch_california_data for california_model's own except.
except_clause(r) ==
    /\ pc[r] = "except"
    /\ IF Catches(exc[r])
       THEN /\ retval' = [retval EXCEPT ![r] = mock_data]
            /\ Goto(r, "return_mock")
            /\ UNCHANGED <<search_results, files, ds_combined, ca_data, overall_mean_no2,
                           formatted_no2, risk, history>>
       ELSE DropLocals(r) /\ Goto(r, "fatal")
    /\ UNCHANGED <<cache, exc, data, response>>

\* return mock_data
return_mock_data(r) ==
    /\ pc[r] = "return_mock"
    /\ data' = [data EXCEPT ![r] = retval[r]]
    /\ DropLocals(r)
    /\ Goto(r, "render")
    /\ UNCHANGED <<cache, exc, response>>

\* return render_template('california_data.html', data=data), which may raise
render(r) ==
    /\ pc[r] = "render"
    /\ \/ /\ response' = [response EXCEPT ![r] = [status |-> 200, page |-> data[r]]]
          /\ Goto(r, "done")
          /\ UNCHANGED exc
       \/ /\ exc' = [exc EXCEPT ![r] = "render"]
          /\ Goto(r, "fatal")
          /\ UNCHANGED response
    /\ UNCHANGED <<cache, locals, data, history>>

\* except Exception as e: ...; abort(500)
abort_500(r) ==
    /\ pc[r] = "fatal"
    /\ response' = [response EXCEPT ![r] = [status |-> 500]]
    /\ Goto(r, "done")
    /\ UNCHANGED <<cache, exc, locals, data, history>>

\* The response is sent; the worker is free for the next request and the
\* locals of the finished one are gone.
finish(r) ==
    /\ pc[r] = "done"
    /\ Goto(r, "idle")
    /\ exc' = [exc EXCEPT ![r] = "none"]
    /\ data' = [data EXCEPT ![r] = None]
    /\ response' = [response EXCEPT ![r] = None]
    /\ UNCHANGED <<cache, locals, history>>

Next ==
    \E r \in Requests :
        \/ Request(r)
        \/ login(r)
        \/ search_data(r)
        \/ glob_check(r)
        \/ download(r)
        \/ glob_load(r)
        \/ no_files(r)
        \/ open(r)
        \/ coords(r)
        \/ subset(r)
        \/ reduce(r)
        \/ format(r)
        \/ classify(r)
        \/ shape(r)
        \/ return_real_data(r)
        \/ except_clause(r)
        \/ return_mock_data(r)
        \/ render(r)
        \/ abort_500(r)
        \/ finish(r)

Spec == Init /\ [][Next]_vars

\* ------------------------------------------------------------------------
\* Properties
\* ------------------------------------------------------------------------
Returning(r) == pc[r] \in {"return_real", "return_mock"}
Returned(r) == pc[r] \in {"render", "done"}

IsLive(d) == "is_live_data" \in DOMAIN d

\* C1: an exception raised at any step of the live path never leaves
\* fetch_california_data: the request is in the except clause or past it, and
\* what is returned is the static mock report, whichever step raised and
\* whatever locals had been computed by then.
C1_ErrorsBecomeMock ==
    \A r \in Requests :
        exc[r] \in PipelineSteps =>
            /\ pc[r] \in {"except", "return_mock", "render", "done"}
            /\ pc[r] = "return_mock" => retval[r] = mock_data
            /\ Returned(r) => data[r] = mock_data

\* A failure after the mean was computed and formatted: the mock is returned
\* with the live values still in the locals.
C1_Witness ==
    \E r \in Requests :
        /\ pc[r] = "return_mock"
        /\ exc[r] = "risk"
        /\ ~overall_mean_no2[r].nan
        /\ ~formatted_no2[r].nan
        /\ retval[r] = mock_data

\* C2: a NaN mean is treated as a failure: no live report is built from it,
\* and no report with is_live_data carries "nan" as its NO2 value or in its
\* summary.
C2_NaNFallsBack ==
    \A r \in Requests :
        /\ pc[r] = "return_real" =>
              /\ ~overall_mean_no2[r].nan
              /\ ~retval[r].metrics[1].value.nan
              /\ ~retval[r].summary.no2.nan
        /\ (Returned(r) /\ IsLive(data[r])) =>
              /\ ~data[r].metrics[1].value.nan
              /\ ~data[r].summary.no2.nan

\* C3: with no exception and a finite mean the report is live, and its
\* risk_level is "HIGH RISK" exactly when mean >= HIGH_RISK_THRESHOLD, the
\* threshold itself included, and "LOW/MODERATE RISK" otherwise.
C3_RiskFollowsThreshold ==
    \A r \in Requests :
        /\ (pc[r] = "return_real" /\ ~overall_mean_no2[r].nan) =>
              /\ retval[r].is_live_data = TRUE
              /\ retval[r].risk_level = "HIGH RISK" <=>
                    overall_mean_no2[r].num >= HIGH_RISK_THRESHOLD * overall_mean_no2[r].den
              /\ retval[r].risk_level # "HIGH RISK" =>
                    retval[r].risk_level = "LOW/MODERATE RISK"
              /\ retval[r].metrics[1].value = format_2e(overall_mean_no2[r])
        /\ pc[r] = "return_mock" => exc[r] \in PipelineSteps

\* A mean exactly on the threshold, reported as HIGH RISK.
C3_Witness ==
    \E r \in Requests :
        /\ pc[r] = "return_real"
        /\ ~overall_mean_no2[r].nan
        /\ overall_mean_no2[r].num = HIGH_RISK_THRESHOLD * overall_mean_no2[r].den
        /\ retval[r].risk_level = "HIGH RISK"

\* C4: a request that starts with files matching tempo_data/OMI-Aura_L3*.he5
\* in the directory never calls download.
C4_CachedFilesSkipDownload ==
    \A r \in Requests : cachedAtStart[r] => ~downloadCalled[r]

\* C5: a search with zero results, or a download that wrote no file, ends in
\* the mock report, whatever the directory held.
C5_NoDataFallsBack ==
    \A r \in Requests :
        (/\ Returning(r)
         /\ exc[r] \notin {"login", "search"}
         /\ \/ search_results[r] = {}
            \/ downloadCalled[r] /\ ~fetched[r])
        => retval[r] = mock_data

\* The sum of the NO2 values of a set of cells <<file, row, column>>.
RECURSIVE SumCells(_)
SumCells(S) ==
    IF S = {} THEN 0
    ELSE LET c == CHOOSE y \in S : TRUE
         IN  NO2Cell(c[1], c[2], c[3])[1] + SumCells(S \ {c})

\* The mean, computed cell by cell, of the cells inside the box of the
\* granules of G.
BoxMean(G) ==
    LET cells == {c \in G \X (1..NLat) \X (1..NLon) :
                     InBox(c[2], c[3]) /\ NO2Cell(c[1], c[2], c[3]) # <<>>}
    IN  IF cells = {} THEN NaN
        ELSE [nan |-> FALSE, num |-> SumCells(cells), den |-> Cardinality(cells)]

SameMean(a, b) ==
    IF a.nan \/ b.nan THEN a.nan /\ b.nan ELSE a.num * b.den = b.num * a.den

\* C6: the mean of a live report is the mean of the cells inside the Region of
\* the granules the query returned (all inside the TimeRange); other files of
\* the directory do not influence it.
C6_MeanOnlyOverQueriedGranules ==
    \A r \in Requests :
        pc[r] = "return_real" =>
            SameMean(overall_mean_no2[r], BoxMean(Range(files[r]) \cap search_results[r]))

\* C7: HTTP 500 is answered only for an error of the rendering, never for one
\* of the acquisition or the processing, which is answered with the page of
\* the mock report; a finished request has one of three responses.
C7_Http500OnlyFromRendering ==
    \A r \in Requests :
        /\ pc[r] = "fatal" => exc[r] = "render"
        /\ pc[r] = "done" =>
              /\ \/ response[r] = [status |-> 500]
                 \/ response[r] = [status |-> 200, page |-> mock_data]
                 \/ /\ response[r] = [status |-> 200, page |-> data[r]]
                    /\ IsLive(data[r])
              /\ response[r].status = 500 <=> exc[r] = "render"
              /\ exc[r] \in PipelineSteps => response[r] = [status |-> 200, page |-> mock_data]

\* One request answered with the mock page after a failed acquisition, the
\* other with HTTP 500 after a failed rendering.
C7_Witness ==
    \E r, o \in Requests :
        /\ pc[r] = "done" /\ exc[r] = "download"
        /\ response[r] = [status |-> 200, page |-> mock_data]
        /\ pc[o] = "done" /\ response[o].status = 500

LiveFields ==
    {"region_name", "analysis_date", "summary", "metrics", "recommendations",
     "is_live_data", "risk_color_hex", "risk_level"}

MockFields == {"region_name", "analysis_date", "summary", "metrics", "recommendations"}

LiveShape(d) ==
    /\ DOMAIN d = LiveFields
    /\ d.is_live_data = TRUE
    /\ d.risk_level \in {"HIGH RISK", "LOW/MODERATE RISK"}
    /\ d.risk_color_hex = (IF d.risk_level = "HIGH RISK" THEN "#DC2626" ELSE "#059669")
    /\ Len(d.metrics) = 2
    /\ Len(d.recommendations) = 3

MockShape(d) ==
    /\ DOMAIN d = MockFields
    /\ Len(d.metrics) = 4
    /\ Len(d.recommendations) = 3

\* C8: a report about to be returned, or returned, is either a live report
\* (is_live_data true, a risk level, the colour red exactly for HIGH RISK and
\* green otherwise, 2 metrics, 3 recommendations) or the mock report (none of
\* the three fields, 4 metrics, 3 recommendations).
C8_TwoShapes ==
    \A r \in Requests :
        /\ Returning(r) =>
              IF pc[r] = "return_real" THEN LiveShape(retval[r]) ELSE MockShape(retval[r])
        /\ Returned(r) => LiveShape(data[r]) \/ MockShape(data[r])

\* Both shapes at once: a live HIGH RISK report and a mock report.
C8_Witness ==
    \E r, o \in Requests :
        /\ pc[r] = "render" /\ IsLive(data[r]) /\ data[r].risk_color_hex = "#DC2626"
        /\ pc[o] = "render" /\ ~IsLive(data[o])

\* C9: nothing but the listing of the directory decides whether a request
\* downloads: a request that leaves the check while no file matches the
\* checked pattern goes on to download, wherever the other requests are.
C9_NoMutualExclusion ==
    [][\A r \in Requests :
          (/\ pc[r] = "glob_check"
           /\ pc'[r] # "glob_check"
           /\ Matching(cache, pattern_check) = {})
          => pc'[r] = "download"]_vars

\* Every request started on an empty directory, passed the check and is
\* about to download into it.
C9_Witness ==
    /\ cache = {}
    /\ \A r \in Requests : pc[r] = "download" /\ ~cachedAtStart[r]

\* C10: the report does not depend on the order of the file list: every
\* ordering of the same files gives, end to end, the report that was built
\* (for the same date).
C10_OrderIndependent ==
    \A r \in Requests :
        pc[r] = "return_real" =>
            \A p \in Orderings(Range(files[r])) :
                /\ SameMean(mean(sel(assign_coords(open_mfdataset(p))).ColumnAmountNO2Trop),
                            overall_mean_no2[r])
                /\ live_report(p, retval[r].analysis_date[1]) = retval[r]

\* Three files with different contents, listed G2, D1, G1.
C10_Witness ==
    \E r \in Requests :
        /\ pc[r] = "return_real"
        /\ files[r] = <<"G2", "D1", "G1">>

====
